---- MODULE Spec2Model ----
(***************************************************************************)
(* docker/configure_workers_and_start.py: generation of the shared         *)
(* homeserver patch, the nginx routing table, the supervisord spec and the *)
(* per-worker config files from SYNAPSE_WORKERS, followed by the start of  *)
(* supervisord.                                                            *)
(*                                                                         *)
(* Text is modelled as a sequence of tokens.  A string read from the       *)
(* environment is a sequence of atoms: an atom is "," or " " or a maximal  *)
(* run of other characters (a word such as "pusher" or "*").  The text of  *)
(* a generated file is a sequence of records, one per block the code       *)
(* formats (a [program:x] section, a location block, a yaml document...).  *)
(***************************************************************************)
EXTENDS Naturals, Sequences, FiniteSets, TLC

\* ------------------------------------------------------------------ bounds
\* The enumerated SYNAPSE_WORKERS values are joins of at most MaxItems items.
MaxItems == 2
\* The enumerated base configs declare at most MaxListeners listeners.
MaxListeners == 2
\* main() is executed at most MaxRuns times on the same container filesystem.
MaxRuns == 2

\* ------------------------------------------------------- program constants
ReplicationPort == 9093
BaseWorkerPort == 18009
NginxListenPort == 8080
MainListenerPort == 8008
NginxPriority == 500
MainPriority == 1
WorkerPriority == 500

ConfigPath == "/data/homeserver.yaml"
SharedYamlPath == "/conf/workers/shared.yaml"

DEFAULT_LISTENER_RESOURCES == <<"client", "federation">>

\* WORKERS_CONFIG.keys(), in insertion (= iteration) order.
WORKERS_KEYS ==
    << "pusher", "user_dir", "media_repository", "appservice",
       "federation_sender", "synchrotron", "federation_reader",
       "federation_inbound" >>

WorkerNames == { WORKERS_KEYS[i] : i \in 1..Len(WORKERS_KEYS) }

WORKERS_CONFIG ==
    [ pusher |->
        [ app |-> "synapse.app.pusher",
          listener_resources |-> << >>,
          endpoint_patterns |-> << >>,
          shared_extra_conf |-> "start_pushers: false" ],
      user_dir |->
        [ app |-> "synapse.app.user_dir",
          listener_resources |-> DEFAULT_LISTENER_RESOURCES,
          endpoint_patterns |->
            << "^/_matrix/client/(api/v1|r0|unstable)/user_directory/search$" >>,
          shared_extra_conf |-> "update_user_directory: false" ],
      media_repository |->
        [ app |-> "synapse.app.media_repository",
          listener_resources |-> << "media" >>,
          endpoint_patterns |->
            << "^/_synapse/admin/v1/purge_media_cache$",
               "^/_synapse/admin/v1/room/.*/media.*$",
               "^/_synapse/admin/v1/user/.*/media.*$",
               "^/_synapse/admin/v1/media/.*$",
               "^/_synapse/admin/v1/quarantine_media/.*$" >>,
          shared_extra_conf |-> "enable_media_repo: false" ],
      appservice |->
        [ app |-> "synapse.app.appservice",
          listener_resources |-> << >>,
          endpoint_patterns |-> << >>,
          shared_extra_conf |-> "notify_appservices: false" ],
      federation_sender |->
        [ app |-> "synapse.app.federation_sender",
          listener_resources |-> << >>,
          endpoint_patterns |-> << >>,
          shared_extra_conf |-> "send_federation: false" ],
      synchrotron |->
        [ app |-> "synapse.app.generic_worker",
          listener_resources |-> DEFAULT_LISTENER_RESOURCES,
          endpoint_patterns |->
            << "^/_matrix/client/(v2_alpha|r0)/sync$",
               "^/_matrix/client/(api/v1|v2_alpha|r0)/events$",
               "^/_matrix/client/(api/v1|r0)/initialSync$",
               "^/_matrix/client/(api/v1|r0)/rooms/[^/]+/initialSync$" >>,
          shared_extra_conf |-> "" ],
      federation_reader |->
        [ app |-> "synapse.app.generic_worker",
          listener_resources |-> DEFAULT_LISTENER_RESOURCES,
          endpoint_patterns |->
            << "^/_matrix/federation/(v1|v2)/event/",
               "^/_matrix/federation/(v1|v2)/state/",
               "^/_matrix/federation/(v1|v2)/state_ids/",
               "^/_matrix/federation/(v1|v2)/backfill/",
               "^/_matrix/federation/(v1|v2)/get_missing_events/",
               "^/_matrix/federation/(v1|v2)/publicRooms",
               "^/_matrix/federation/(v1|v2)/query/",
               "^/_matrix/federation/(v1|v2)/make_join/",
               "^/_matrix/federation/(v1|v2)/make_leave/",
               "^/_matrix/federation/(v1|v2)/send_join/",
               "^/_matrix/federation/(v1|v2)/send_leave/",
               "^/_matrix/federation/(v1|v2)/invite/",
               "^/_matrix/federation/(v1|v2)/query_auth/",
               "^/_matrix/federation/(v1|v2)/event_auth/",
               "^/_matrix/federation/(v1|v2)/exchange_third_party_invite/",
               "^/_matrix/federation/(v1|v2)/user/devices/",
               "^/_matrix/federation/(v1|v2)/get_groups_publicised$",
               "^/_matrix/key/v2/query" >>,
          shared_extra_conf |-> "" ],
      federation_inbound |->
        [ app |-> "synapse.app.generic_worker",
          listener_resources |-> DEFAULT_LISTENER_RESOURCES,
          endpoint_patterns |-> << "/_matrix/federation/(v1|v2)/send/" >>,
          shared_extra_conf |-> "" ] ]

\* ----------------------------------------------------------- str methods
RECURSIVE Flatten(_)
\* The concatenation of a sequence of sequences.
Flatten(ss) == IF ss = << >> THEN << >> ELSE Head(ss) \o Flatten(Tail(ss))

RECURSIVE Join(_, _)
\* sep.join(pieces), for strings as sequences of atoms.
Join(pieces, sep) ==
    IF pieces = << >> THEN << >>
    ELSE IF Len(pieces) = 1 THEN pieces[1]
    ELSE pieces[1] \o << sep >> \o Join(Tail(pieces), sep)

RECURSIVE SplitFrom(_, _, _)
\* The pieces of s from atom i on, cur being the piece read so far.
SplitFrom(s, i, cur) ==
    IF i > Len(s) THEN << cur >>
    ELSE IF s[i] = "," THEN << cur >> \o SplitFrom(s, i + 1, << >>)
    ELSE SplitFrom(s, i + 1, Append(cur, s[i]))

\* str.split(","): always at least one piece, "" gives [""].
Split(s) == SplitFrom(s, 1, << >>)

RECURSIVE LStrip(_)
LStrip(s) == IF s # << >> /\ Head(s) = " " THEN LStrip(Tail(s)) ELSE s

RECURSIVE RStrip(_)
RStrip(s) ==
    IF s # << >> /\ s[Len(s)] = " " THEN RStrip(SubSeq(s, 1, Len(s) - 1)) ELSE s

\* str.strip()
Strip(s) == RStrip(LStrip(s))

\* The str of a word-only string (the dict key it is looked up as); any other
\* string is the key of nothing.
IsWord(s) == Len(s) = 1 /\ s[1] \notin {",", " "}

\* WORKERS_CONFIG.get(worker_type) is truthy
IsRegistered(worker_type) == IsWord(worker_type) /\ worker_type[1] \in WorkerNames

\* ----------------------------------------------------------- yaml.dump
\* The keys the modelled listeners use, in the order yaml.dump (sort_keys=True)
\* emits them.
SortedKeys == << "bind_address", "port", "resources", "tls", "type" >>

\* yaml.dump of one mapping: its (key, value) pairs in sorted key order.
DumpMapping(m) ==
    LET present == SelectSeq(SortedKeys, LAMBDA k : k \in DOMAIN m)
    IN  [ i \in 1..Len(present) |-> << present[i], m[present[i]] >> ]

\* yaml.dump({"listeners": listeners}): one document, the list in list order.
YamlDumpListeners(listeners) ==
    [ kind |-> "yaml", key |-> "listeners",
      items |-> [ i \in 1..Len(listeners) |-> DumpMapping(listeners[i]) ] ]

\* ------------------------------------------------- generate_worker_files
ReplicationListener ==
    [ port |-> ReplicationPort, bind_address |-> "127.0.0.1", type |-> "http",
      resources |-> << [ names |-> << "replication" >> ] >> ]

\* Listeners with the replication listener after the original ones.
Listeners_appended(original_config) ==
    IF original_config.has_listeners
    THEN original_config.listeners \o << ReplicationListener >>
    ELSE << ReplicationListener >>

\* listeners = [replication]; if original_listeners: listeners += original_listeners
Listeners(original_config) ==
    LET original_listeners ==
            IF original_config.has_listeners THEN original_config.listeners
            ELSE << >>
    IN  IF original_listeners # << >>
        THEN << ReplicationListener >> \o original_listeners
        ELSE << ReplicationListener >>

RedisEnabled == [ kind |-> "redis", enabled |-> TRUE ]

\* InitialHomeserverConfig with the redis flag before the listeners.
InitialHomeserverConfig_redisFirst(original_config) ==
    << RedisEnabled, YamlDumpListeners(Listeners(original_config)) >>

\* homeserver_config before the loop: the dumped listeners, then the redis flag.
InitialHomeserverConfig(original_config) ==
    << YamlDumpListeners(Listeners(original_config)), RedisEnabled >>

SupervisordSection == [ kind |-> "supervisord", nodaemon |-> TRUE ]

NginxProgram ==
    [ kind |-> "program", name |-> "nginx",
      command |-> << "/usr/sbin/nginx", "-g", "daemon off;" >>,
      priority |-> NginxPriority, autorestart |-> "true" ]

\* MainProgram with the priority of the other programs.
MainProgram_samePriority(config_path) ==
    [ kind |-> "program", name |-> "synapse_main",
      command |-> << "/usr/local/bin/python", "-m", "synapse.app.homeserver",
                     "--config-path=" \o config_path,
                     "--config-path=" \o SharedYamlPath >>,
      priority |-> NginxPriority, autorestart |-> "unexpected", exitcodes |-> 0 ]

MainProgram(config_path) ==
    [ kind |-> "program", name |-> "synapse_main",
      command |-> << "/usr/local/bin/python", "-m", "synapse.app.homeserver",
                     "--config-path=" \o config_path,
                     "--config-path=" \o SharedYamlPath >>,
      priority |-> MainPriority, autorestart |-> "unexpected", exitcodes |-> 0 ]

\* supervisord_config before the loop.
InitialSupervisordConfig(config_path) ==
    << SupervisordSection, NginxProgram, MainProgram(config_path) >>

NginxHeader ==
    [ kind |-> "header", listen |-> NginxListenPort,
      client_max_body_size |-> "100M" ]

NginxEnd == [ kind |-> "catchall", proxy_pass |-> MainListenerPort ]

\* ParseWorkerTypes without the expansion of "*".
ParseWorkerTypes_noWildcard(synapse_workers) ==
    IF ~synapse_workers.present THEN << >> ELSE Split(synapse_workers.value)

\* The value of worker_types after the environment is read.
ParseWorkerTypes(synapse_workers) ==
    IF ~synapse_workers.present THEN << >>
    ELSE IF synapse_workers.value = << "*" >>
         THEN [ i \in 1..Len(WORKERS_KEYS) |-> << WORKERS_KEYS[i] >> ]
    ELSE Split(synapse_workers.value)

\* worker_config after the three update() calls.
WorkerConfig(worker_name, worker_port, config_path) ==
    [ name |-> worker_name, port |-> worker_port, config_path |-> config_path ]
        @@ WORKERS_CONFIG[worker_name]

DescriptorPath(worker_name) == "/conf/workers/" \o worker_name \o ".yaml"

\* WorkerProgram with the worker's own file before the shared one.
WorkerProgram_sharedLast(worker_config) ==
    [ kind |-> "program", name |-> "synapse_" \o worker_config.name,
      command |-> << "/usr/local/bin/python", "-m", worker_config.app,
                     "--config-path=" \o worker_config.config_path,
                     "--config-path=" \o DescriptorPath(worker_config.name),
                     "--config-path=" \o SharedYamlPath >>,
      autorestart |-> "unexpected", priority |-> WorkerPriority,
      exitcodes |-> 0 ]

WorkerProgram(worker_config) ==
    [ kind |-> "program", name |-> "synapse_" \o worker_config.name,
      command |-> << "/usr/local/bin/python", "-m", worker_config.app,
                     "--config-path=" \o worker_config.config_path,
                     "--config-path=" \o SharedYamlPath,
                     "--config-path=" \o DescriptorPath(worker_config.name) >>,
      autorestart |-> "unexpected", priority |-> WorkerPriority,
      exitcodes |-> 0 ]

NginxLocation(pattern, worker_port) ==
    [ kind |-> "location", pattern |-> pattern, proxy_pass |-> worker_port ]

\* The location blocks of one worker, in the order of its endpoint patterns.
NginxRules(worker_config) ==
    [ i \in 1..Len(worker_config.endpoint_patterns) |->
        NginxLocation(worker_config.endpoint_patterns[i], worker_config.port) ]

SharedExtraConfLine(worker_config) ==
    [ kind |-> "line", text |-> worker_config.shared_extra_conf ]

\* jinja2.Template(template).render(**environ): the template is a file outside
\* the repository, its rendering a function of the mapping it is given.
Render(src, environ) ==
    << [ kind |-> "rendered", template |-> src, environ |-> environ ] >>

\* NextWorkerPort without the increment.
NextWorkerPort_stuck(worker_port) == worker_port

NextWorkerPort(worker_port) == worker_port + 1

\* ------------------------------------------------------------ file writes
NginxConfPath == "/etc/nginx/conf.d/matrix-synapse.conf"
SupervisordConfPath == "/etc/supervisor/conf.d/supervisord.conf"
WorkerTemplatePath == "/conf/worker.yaml.j2"

NoFile == [ exists |-> FALSE, content |-> << >> ]

\* AppendWrite with the file opened in mode "w".
AppendWrite_truncating(files, path, text) ==
    [ files EXCEPT ![path] = [ exists |-> TRUE, content |-> text ] ]

\* with open(path, "a") as f: f.write(text)
AppendWrite(files, path, text) ==
    [ files EXCEPT ![path] = [ exists |-> TRUE, content |-> @.content \o text ] ]

\* ConvertWrite with the file opened in mode "a".
ConvertWrite_appending(files, dst, rendered) ==
    [ files EXCEPT ![dst] = [ exists |-> TRUE, content |-> @.content \o rendered ] ]

\* with open(dst, "w") as outfile: outfile.write(rendered)
ConvertWrite(files, dst, rendered) ==
    [ files EXCEPT ![dst] = [ exists |-> TRUE, content |-> rendered ] ]

Newline == [ kind |-> "newline" ]

\* The two writes to shared.yaml.
WriteSharedYaml(files, homeserver_config) ==
    AppendWrite(AppendWrite(files, SharedYamlPath, << Newline >>),
                SharedYamlPath, homeserver_config)

\* The text one run appends to the nginx config: header, body, end.
NginxConfig(nginx_config_body) ==
    << NginxHeader >> \o nginx_config_body \o << NginxEnd >>

\* WriteNginxConf with the end written before the body.
WriteNginxConf_endBeforeBody(files, nginx_config_body) ==
    AppendWrite(
        AppendWrite(AppendWrite(files, NginxConfPath, << NginxHeader >>),
                    NginxConfPath, << NginxEnd >>),
        NginxConfPath, nginx_config_body)

\* The three writes to the nginx config.
WriteNginxConf(files, nginx_config_body) ==
    AppendWrite(
        AppendWrite(AppendWrite(files, NginxConfPath, << NginxHeader >>),
                    NginxConfPath, nginx_config_body),
        NginxConfPath, << NginxEnd >>)

WriteSupervisordConf(files, supervisord_config) ==
    AppendWrite(files, SupervisordConfPath, supervisord_config)

\* ------------------------------------------------------- the worker loop
\* The local variables of generate_worker_files the loop reads and writes,
\* with the calls of convert() and log() it has made.
InitialLocals(original_config, config_path) ==
    [ worker_port |-> BaseWorkerPort,
      homeserver_config |-> InitialHomeserverConfig(original_config),
      supervisord_config |-> InitialSupervisordConfig(config_path),
      nginx_config_body |-> << >>,
      converted |-> << >>,
      logged |-> << >> ]

\* The loop body for a registered worker_type.
ProcessWorkerBody(l, worker_type) ==
    LET worker_name == worker_type[1]
        worker_config == WorkerConfig(worker_name, l.worker_port, ConfigPath)
    IN  [ worker_port |-> NextWorkerPort(l.worker_port),
          homeserver_config |->
              Append(l.homeserver_config, SharedExtraConfLine(worker_config)),
          supervisord_config |->
              Append(l.supervisord_config, WorkerProgram(worker_config)),
          nginx_config_body |->
              l.nginx_config_body \o NginxRules(worker_config),
          converted |->
              Append(l.converted,
                     [ src |-> WorkerTemplatePath,
                       dst |-> DescriptorPath(worker_name),
                       environ |-> worker_config ]),
          logged |-> l.logged ]

\* SkipWorkerBody with the port incremented before the continue.
SkipWorkerBody_takesPort(l, worker_type) ==
    [ l EXCEPT !.worker_port = @ + 1,
               !.logged =
        Append(@, [ text |-> " is a wrong worker type ! It will be ignored",
                    subject |-> worker_type ]) ]

\* The loop body for a worker_type the registry does not know: log, continue.
SkipWorkerBody(l, worker_type) ==
    [ l EXCEPT !.logged =
        Append(@, [ text |-> " is a wrong worker type ! It will be ignored",
                    subject |-> worker_type ]) ]

LoopBody(l, raw_worker_type) ==
    LET worker_type == Strip(raw_worker_type)
    IN  IF IsRegistered(worker_type)
        THEN ProcessWorkerBody(l, worker_type)
        ELSE SkipWorkerBody(l, worker_type)

RECURSIVE RunLoop(_, _)
\* The locals after the loop has run over types.
RunLoop(l, types) ==
    IF types = << >> THEN l ELSE RunLoop(LoopBody(l, Head(types)), Tail(types))

\* ------------------------------------------------------------- the inputs
Preexisting == [ kind |-> "preexisting" ]

HttpListener ==
    [ port |-> MainListenerPort, tls |-> FALSE, type |-> "http",
      bind_address |-> "::",
      resources |-> << [ names |-> << "client", "federation" >> ] >> ]

MetricsListener ==
    [ port |-> 9000, type |-> "metrics", bind_address |-> "0.0.0.0" ]

ListenerPool == { HttpListener, MetricsListener }

SeqsUpTo(S, n) == UNION { [ 1..k -> S ] : k \in 0..n }

NoConfig == [ exists |-> FALSE, has_listeners |-> FALSE, listeners |-> << >> ]

\* The base configs (yaml mappings): without a "listeners" key, or with a list.
BaseConfigs ==
    { [ exists |-> TRUE, has_listeners |-> FALSE, listeners |-> << >> ] }
    \cup { [ exists |-> TRUE, has_listeners |-> TRUE, listeners |-> ls ] :
             ls \in SeqsUpTo(ListenerPool, MaxListeners) }

Items ==
    { << "pusher" >>, << "user_dir" >>, << "bogus" >>, << >> }

AllKeysJoined == Join([ i \in 1..Len(WORKERS_KEYS) |-> << WORKERS_KEYS[i] >> ], ",")

\* The values of SYNAPSE_WORKERS: unset, or a string.
Requests ==
    { [ present |-> FALSE, value |-> << >> ] }
    \cup { [ present |-> TRUE, value |-> Join(items, ",") ] :
             items \in SeqsUpTo(Items, MaxItems) }
    \cup { [ present |-> TRUE, value |-> AllKeysJoined ],
           [ present |-> TRUE, value |-> << "*" >> ],
           [ present |-> TRUE, value |-> << " ", "*" >> ],
           [ present |-> TRUE, value |-> << " ", "user_dir", " " >> ],
           [ present |-> TRUE, value |-> << "pusher", ",", " ", "user_dir" >> ],
           [ present |-> TRUE, value |-> << "*", ",", "pusher" >> ],
           [ present |-> TRUE, value |-> << "federation_reader", ",", "user_dir" >> ] }

Words == WorkerNames \cup { "bogus", "*" }

OutputPaths ==
    { SharedYamlPath, NginxConfPath, SupervisordConfPath }
    \cup { DescriptorPath(w) : w \in Words }

\* The output files before the first run: none, or each of the three config
\* files and two worker files already written to by an earlier build step.
InitialFilesystems ==
    { [ p \in OutputPaths |-> NoFile ],
      [ p \in OutputPaths |->
          IF p \in { SharedYamlPath, NginxConfPath, SupervisordConfPath,
                     DescriptorPath("pusher"), DescriptorPath("user_dir") }
          THEN [ exists |-> TRUE, content |-> << Preexisting >> ]
          ELSE NoFile ] }

\* ------------------------------------------------------------ the state
VARIABLES
    pc,                 \* the statement main() is at
    runs,               \* the number of executions of main() begun
    synapse_workers,    \* environ.get("SYNAPSE_WORKERS")
    config,             \* the base config file at config_path
    fs,                 \* the output files, by path
    log_dir,            \* data_dir + "/logs" exists
    worker_types,       \* generate_worker_files: the list iterated
    idx,                \* the position of the loop in worker_types
    locals,             \* generate_worker_files: the locals of the loop
    stdout,             \* the log() calls of main()
    supervisor_started, \* /usr/bin/supervisord has been run
    prev                \* the output files the previous execution left

vars ==
    << pc, runs, synapse_workers, config, fs, log_dir, worker_types, idx,
       locals, stdout, supervisor_started, prev >>

NoLocals ==
    [ worker_port |-> BaseWorkerPort,
      homeserver_config |-> << >>,
      supervisord_config |-> << >>,
      nginx_config_body |-> << >>,
      converted |-> << >>,
      logged |-> << >> ]

Init ==
    /\ pc = "start"
    /\ runs = 1
    /\ synapse_workers \in Requests
    /\ config \in { NoConfig } \cup BaseConfigs
    /\ fs \in InitialFilesystems
    /\ log_dir = fs[SharedYamlPath].exists
    /\ worker_types = << >>
    /\ idx = 1
    /\ locals = NoLocals
    /\ stdout = << >>
    /\ supervisor_started = FALSE
    /\ prev = [ completed |-> FALSE, fs |-> fs ]

\* MainStart without the os.path.exists test.
MainStart_alwaysBootstrap ==
    /\ pc = "start"
    /\ pc' = "bootstrap"
    /\ stdout' = Append(stdout, "Generating base homeserver config")
    /\ UNCHANGED << runs, synapse_workers, config, fs, log_dir, worker_types,
                    idx, locals, supervisor_started, prev >>

\* main(): if not os.path.exists(config_path): log(...), then the bootstrap.
MainStart ==
    /\ pc = "start"
    /\ IF config.exists
       THEN pc' = "generate" /\ UNCHANGED stdout
       ELSE /\ pc' = "bootstrap"
            /\ stdout' = Append(stdout, "Generating base homeserver config")
    /\ UNCHANGED << runs, synapse_workers, config, fs, log_dir, worker_types,
                    idx, locals, supervisor_started, prev >>

\* AfterBootstrap with the exit code of start.py ignored.
AfterBootstrap_ignoresFailure(ok) == "generate"

\* Where main() continues after subprocess.check_output of start.py: the
\* CalledProcessError of a non-zero exit code is not caught.
AfterBootstrap(ok) == IF ok THEN "generate" ELSE "aborted"

\* generate_base_homeserver_config(): start.py migrate_config writes the base
\* config, or exits with a non-zero code.
GenerateBaseHomeserverConfig ==
    /\ pc = "bootstrap"
    /\ \E ok \in BOOLEAN :
        /\ pc' = AfterBootstrap(ok)
        /\ IF ok THEN config' \in BaseConfigs ELSE UNCHANGED config
    /\ UNCHANGED << runs, synapse_workers, fs, log_dir, worker_types, idx,
                    locals, stdout, supervisor_started, prev >>

\* generate_worker_files() up to the loop: the base config is read, the texts
\* are initialised, the environment is read.
GenerateWorkerFilesBegin ==
    /\ pc = "generate"
    /\ locals' = InitialLocals(config, ConfigPath)
    /\ worker_types' = ParseWorkerTypes(synapse_workers)
    /\ idx' = 1
    /\ pc' = "loop"
    /\ UNCHANGED << runs, synapse_workers, config, fs, log_dir, stdout,
                    supervisor_started, prev >>

\* One iteration of the loop for a registered worker type; convert() writes
\* the worker's file.
ProcessWorker ==
    /\ pc = "loop"
    /\ idx <= Len(worker_types)
    /\ IsRegistered(Strip(worker_types[idx]))
    /\ locals' = LoopBody(locals, worker_types[idx])
    /\ LET call == locals'.converted[Len(locals'.converted)]
       IN  fs' = ConvertWrite(fs, call.dst, Render(call.src, call.environ))
    /\ idx' = idx + 1
    /\ UNCHANGED << pc, runs, synapse_workers, config, log_dir, worker_types,
                    stdout, supervisor_started, prev >>

\* One iteration of the loop for a worker type the registry does not know.
SkipWorker ==
    /\ pc = "loop"
    /\ idx <= Len(worker_types)
    /\ ~IsRegistered(Strip(worker_types[idx]))
    /\ locals' = LoopBody(locals, worker_types[idx])
    /\ idx' = idx + 1
    /\ UNCHANGED << pc, runs, synapse_workers, config, fs, log_dir,
                    worker_types, stdout, supervisor_started, prev >>

\* The loop is exhausted; shared.yaml is appended to.
WriteShared ==
    /\ pc = "loop"
    /\ idx > Len(worker_types)
    /\ fs' = WriteSharedYaml(fs, locals.homeserver_config)
    /\ pc' = "write_nginx"
    /\ UNCHANGED << runs, synapse_workers, config, log_dir, worker_types, idx,
                    locals, stdout, supervisor_started, prev >>

WriteNginx ==
    /\ pc = "write_nginx"
    /\ fs' = WriteNginxConf(fs, locals.nginx_config_body)
    /\ pc' = "write_supervisord"
    /\ UNCHANGED << runs, synapse_workers, config, log_dir, worker_types, idx,
                    locals, stdout, supervisor_started, prev >>

\* The supervisord config is appended to and the log directory is made;
\* generate_worker_files() returns.
WriteSupervisord ==
    /\ pc = "write_supervisord"
    /\ fs' = WriteSupervisordConf(fs, locals.supervisord_config)
    /\ log_dir' = TRUE
    /\ pc' = "start_supervisord"
    /\ UNCHANGED << runs, synapse_workers, config, worker_types, idx, locals,
                    stdout, supervisor_started, prev >>

\* start_supervisord(): supervisord runs in the foreground; main() returns
\* when it exits with code 0 and raises CalledProcessError otherwise.
StartSupervisord ==
    /\ pc = "start_supervisord"
    /\ supervisor_started' = TRUE
    /\ \E ok \in BOOLEAN : pc' = IF ok THEN "done" ELSE "failed"
    /\ UNCHANGED << runs, synapse_workers, config, fs, log_dir, worker_types,
                    idx, locals, stdout, prev >>

Terminated == pc \in { "done", "failed", "aborted" }

\* The container is started again on the same filesystem and environment.
Rerun ==
    /\ Terminated
    /\ runs < MaxRuns
    /\ runs' = runs + 1
    /\ pc' = "start"
    /\ worker_types' = << >>
    /\ idx' = 1
    /\ locals' = NoLocals
    /\ stdout' = << >>
    /\ supervisor_started' = FALSE
    /\ prev' = [ completed |-> pc # "aborted", fs |-> fs ]
    /\ UNCHANGED << synapse_workers, config, fs, log_dir >>

Next ==
    \/ MainStart
    \/ GenerateBaseHomeserverConfig
    \/ GenerateWorkerFilesBegin
    \/ ProcessWorker
    \/ SkipWorker
    \/ WriteShared
    \/ WriteNginx
    \/ WriteSupervisord
    \/ StartSupervisord
    \/ Rerun

Spec == Init /\ [][Next]_vars

\* ---------------------------------------------------- generate_worker_files
RECURSIVE ApplyConverts(_, _)
\* The files after the convert() calls, in call order.
ApplyConverts(files, calls) ==
    IF calls = << >> THEN files
    ELSE ApplyConverts(
             ConvertWrite(files, Head(calls).dst,
                          Render(Head(calls).src, Head(calls).environ)),
             Tail(calls))

\* generate_worker_files() as a whole: the locals it ends with and the files
\* it leaves.
GenerateWorkerFiles(files, environ_workers, original_config) ==
    LET l == RunLoop(InitialLocals(original_config, ConfigPath),
                     ParseWorkerTypes(environ_workers))
    IN  [ locals |-> l,
          fs |-> WriteSupervisordConf(
                     WriteNginxConf(
                         WriteSharedYaml(ApplyConverts(files, l.converted),
                                         l.homeserver_config),
                         l.nginx_config_body),
                     l.supervisord_config) ]

\* ------------------------------------------------------ auxiliary notions
IsPrefix(a, b) == Len(a) <= Len(b) /\ SubSeq(b, 1, Len(a)) = a

IsSuffix(a, b) ==
    Len(a) <= Len(b) /\ SubSeq(b, Len(b) - Len(a) + 1, Len(b)) = a

\* What the current run has appended to the file at path p.
Appended(p) ==
    SubSeq(fs[p].content, Len(prev.fs[p].content) + 1, Len(fs[p].content))

\* The loop has been entered in the current run.
InOrPastLoop ==
    pc \in { "loop", "write_nginx", "write_supervisord", "start_supervisord",
             "done", "failed" }

\* generate_worker_files() has returned in the current run.
Generated == pc \in { "start_supervisord", "done", "failed" }

\* The worker types the loop has gone through so far, stripped.
Seen == [ i \in 1..(idx - 1) |-> Strip(worker_types[i]) ]

AllTypes == [ i \in 1..Len(worker_types) |-> Strip(worker_types[i]) ]

ValidOf(types) == SelectSeq(types, IsRegistered)

Without(l, field) == [ k \in DOMAIN l \ { field } |-> l[k] ]

Programs(text) == SelectSeq(text, LAMBDA e : e.kind = "program")

WorkerPrograms(text) ==
    SelectSeq(text, LAMBDA e :
        e.kind = "program" /\ e.name \notin { "nginx", "synapse_main" })

\* ------------------------------------------------------------------ claims

\* C1: when every requested worker type is a registered name, the i-th worker
\* the loop processes (from 0, in request order) is given port 18009 + i, in
\* its descriptor and in its routing rules: the ports are contiguous,
\* strictly increasing from the base port, without duplicates.
C1_PortsContiguous ==
    (InOrPastLoop /\ \A i \in 1..Len(AllTypes) : IsRegistered(AllTypes[i]))
    => /\ Len(locals.converted) = idx - 1
       /\ \A i \in 1..Len(locals.converted) :
            /\ locals.converted[i].environ.name = AllTypes[i][1]
            /\ locals.converted[i].environ.port = BaseWorkerPort + (i - 1)
       /\ locals.nginx_config_body
            = Flatten([ i \in 1..Len(locals.converted) |->
                [ k \in 1..Len(WORKERS_CONFIG[AllTypes[i][1]].endpoint_patterns) |->
                    [ kind |-> "location",
                      pattern |-> WORKERS_CONFIG[AllTypes[i][1]].endpoint_patterns[k],
                      proxy_pass |-> BaseWorkerPort + (i - 1) ] ] ])
       /\ locals.worker_port = BaseWorkerPort + Len(locals.converted)

C1_Witness ==
    /\ pc = "done"
    /\ Len(AllTypes) >= 2
    /\ \A i \in 1..Len(AllTypes) : IsRegistered(AllTypes[i])
    /\ locals.converted[2].environ.port = BaseWorkerPort + 1

\* C2: a requested name the registry does not know gives no supervision
\* entry, no routing rule, no descriptor and no shared-patch fragment, takes
\* no port and does not abort the run (it is logged); the registered names of
\* the request get what they get when the unknown names are not requested.
C2_UnknownIsolated ==
    /\ InOrPastLoop =>
        /\ Without(locals, "logged")
             = Without(RunLoop(InitialLocals(config, ConfigPath), ValidOf(Seen)),
                       "logged")
        /\ locals.worker_port = BaseWorkerPort + Len(ValidOf(Seen))
        /\ Len(locals.logged) = Len(Seen) - Len(ValidOf(Seen))
        /\ \A i \in 1..Len(Seen) :
             (IsWord(Seen[i]) /\ ~IsRegistered(Seen[i])) =>
                /\ \A e \in 1..Len(locals.supervisord_config) :
                     locals.supervisord_config[e].kind = "program" =>
                     locals.supervisord_config[e].name # "synapse_" \o Seen[i][1]
                /\ \A c \in 1..Len(locals.converted) :
                     locals.converted[c].dst # DescriptorPath(Seen[i][1])
                /\ fs[DescriptorPath(Seen[i][1])] = prev.fs[DescriptorPath(Seen[i][1])]
    /\ Generated =>
         fs = GenerateWorkerFiles(
                  prev.fs,
                  [ present |-> TRUE, value |-> Join(ValidOf(AllTypes), ",") ],
                  config).fs
    /\ pc = "aborted" => worker_types = << >>

C2_Witness ==
    /\ pc = "done"
    /\ Len(AllTypes) = 2
    /\ ~IsRegistered(AllTypes[1])
    /\ IsRegistered(AllTypes[2])
    /\ Len(locals.logged) = 1

\* The current run has completed after an earlier run that completed too, on
\* the same environment and base config.
SecondRunDone == pc \in { "done", "failed" } /\ runs >= 2 /\ prev.completed

DescriptorPaths == { DescriptorPath(w) : w \in Words }

\* The text the current run has generated for the file at path p.
GeneratedText(p) ==
    IF p = SharedYamlPath THEN << Newline >> \o locals.homeserver_config
    ELSE IF p = NginxConfPath THEN NginxConfig(locals.nginx_config_body)
    ELSE locals.supervisord_config

\* C3 as stated: after a second run on the same input the routing table, the
\* supervision spec and every descriptor are byte-identical to what the first
\* run left, and the shared patch is what the first run left followed by the
\* newly generated patch.
C3_AsStated ==
    SecondRunDone =>
        /\ fs[NginxConfPath] = prev.fs[NginxConfPath]
        /\ fs[SupervisordConfPath] = prev.fs[SupervisordConfPath]
        /\ \A p \in DescriptorPaths : fs[p] = prev.fs[p]
        /\ fs[SharedYamlPath].content
             = prev.fs[SharedYamlPath].content \o GeneratedText(SharedYamlPath)

\* C3 amended: after a second run on the same input every descriptor is
\* byte-identical to what the first run left; the shared patch, the routing
\* table and the supervision spec are each what the first run left followed
\* by the newly generated text, which is the text the first run ended with.
C3_DescriptorsIdempotentRestAdditive ==
    SecondRunDone =>
        /\ \A p \in DescriptorPaths : fs[p] = prev.fs[p]
        /\ \A p \in { SharedYamlPath, NginxConfPath, SupervisordConfPath } :
             /\ fs[p].content = prev.fs[p].content \o GeneratedText(p)
             /\ IsSuffix(GeneratedText(p), prev.fs[p].content)
             /\ fs[p] # prev.fs[p]

C3_Witness ==
    /\ SecondRunDone
    /\ Len(locals.converted) >= 2
    /\ Len(locals.nginx_config_body) >= 1

\* C4: the supervision spec one run emits has exactly one reverse-proxy
\* entry, exactly one main-process entry and exactly one entry per valid
\* worker instance, and no two of its entries have the same name, for every
\* request (repeated and unknown names included).
C4_EntriesUnique ==
    Generated =>
        LET text == Appended(SupervisordConfPath)
            progs == Programs(text)
        IN  /\ Len(SelectSeq(text, LAMBDA e : e.kind = "program" /\ e.name = "nginx")) = 1
            /\ Len(SelectSeq(text, LAMBDA e :
                     e.kind = "program" /\ e.name = "synapse_main")) = 1
            /\ Len(WorkerPrograms(text)) = Len(ValidOf(AllTypes))
            /\ \A i \in 1..Len(ValidOf(AllTypes)) :
                 WorkerPrograms(text)[i].name = "synapse_" \o ValidOf(AllTypes)[i][1]
            /\ \A i, j \in 1..Len(progs) :
                 progs[i].name = progs[j].name => i = j

\* C5 as stated: priority value of the proxy < priority value of the main
\* process < priority value of each worker.
C5_AsStated ==
    Generated =>
        LET text == Appended(SupervisordConfPath)
        IN  \A i, j \in 1..Len(text) :
              (text[i].kind = "program" /\ text[j].kind = "program") =>
                /\ (text[i].name = "nginx" /\ text[j].name = "synapse_main")
                     => text[i].priority < text[j].priority
                /\ (text[i].name = "synapse_main"
                      /\ text[j].name \notin { "nginx", "synapse_main" })
                     => text[i].priority < text[j].priority

\* C5 amended: in the emitted supervision spec the main-process entry has the
\* lowest priority value (1), so it starts first; the reverse-proxy entry and
\* every worker entry have the same, higher value (500): priority value of
\* main < priority value of proxy = priority value of each worker.
C5_MainFirstProxyWithWorkers ==
    Generated =>
        LET text == Appended(SupervisordConfPath)
        IN  \A i, j \in 1..Len(text) :
              (text[i].kind = "program" /\ text[j].kind = "program"
                 /\ text[i].name = "synapse_main" /\ text[j].name # "synapse_main")
              => /\ text[i].priority = 1
                 /\ text[j].priority = 500
                 /\ text[i].priority < text[j].priority

C5_Witness ==
    /\ pc = "done"
    /\ Len(WorkerPrograms(Appended(SupervisordConfPath))) >= 2

\* The routing rules the claims expect of the valid workers of a request:
\* worker by worker in processing order, each worker's patterns in registry
\* order, each to the port of the worker's convert() call.
ExpectedRules ==
    Flatten([ i \in 1..Len(locals.converted) |->
        [ k \in 1..Len(WORKERS_CONFIG[ValidOf(AllTypes)[i][1]].endpoint_patterns) |->
            [ kind |-> "location",
              pattern |-> WORKERS_CONFIG[ValidOf(AllTypes)[i][1]].endpoint_patterns[k],
              proxy_pass |-> locals.converted[i].environ.port ] ] ])

\* C6: the routing table one run emits holds exactly one catch-all rule, to
\* port 8008, and every worker rule comes before it; the worker rules are in
\* worker processing order and, within a worker, in the order of its
\* endpoint patterns.
C6_CatchAllLast ==
    Generated =>
        LET text == Appended(NginxConfPath)
            n == Len(text)
        IN  /\ n >= 2
            /\ text[n] = [ kind |-> "catchall", proxy_pass |-> 8008 ]
            /\ Len(SelectSeq(text, LAMBDA e : e.kind = "catchall")) = 1
            /\ text[1].kind = "header"
            /\ SubSeq(text, 2, n - 1) = ExpectedRules
            /\ Len(locals.converted) = Len(ValidOf(AllTypes))

C6_Witness ==
    /\ pc = "done"
    /\ Len(ValidOf(AllTypes)) >= 2
    /\ Len(ExpectedRules) >= 2
    /\ Appended(NginxConfPath)[2].proxy_pass # Appended(NginxConfPath)[3].proxy_pass

\* yaml.safe_load of a dumped mapping.
LoadMapping(pairs) ==
    [ k \in { pairs[i][1] : i \in 1..Len(pairs) } |->
        (CHOOSE i \in 1..Len(pairs) : pairs[i][1] = k) ]

LoadedValue(pairs, k) == pairs[LoadMapping(pairs)[k]][2]

\* The listener list serialized into the shared patch by the current run.
SerializedListeners == Appended(SharedYamlPath)[2].items

\* C7: the listener list serialized into the shared patch is the replication
\* listener (port 9093, bind address 127.0.0.1, type http, resource
\* replication) followed by the listeners of the base config in their
\* order; it is the replication listener alone when the base config declares
\* no listener list.
C7_ReplicationListenerFirst ==
    Generated =>
        LET items == SerializedListeners
            old == IF config.has_listeners THEN config.listeners ELSE << >>
        IN  /\ Appended(SharedYamlPath)[2].kind = "yaml"
            /\ Appended(SharedYamlPath)[2].key = "listeners"
            /\ Len(items) = 1 + Len(old)
            /\ DOMAIN LoadMapping(items[1])
                 = { "port", "bind_address", "type", "resources" }
            /\ LoadedValue(items[1], "port") = 9093
            /\ LoadedValue(items[1], "bind_address") = "127.0.0.1"
            /\ LoadedValue(items[1], "type") = "http"
            /\ LoadedValue(items[1], "resources")
                 = << [ names |-> << "replication" >> ] >>
            /\ \A i \in 1..Len(old) :
                 /\ DOMAIN LoadMapping(items[i + 1]) = DOMAIN old[i]
                 /\ \A k \in DOMAIN old[i] :
                      LoadedValue(items[i + 1], k) = old[i][k]
            /\ ~config.has_listeners => Len(items) = 1

C7_Witness ==
    /\ pc = "done"
    /\ config.has_listeners
    /\ config.listeners = << MetricsListener, HttpListener >>
    /\ Len(SerializedListeners) = 3

\* C8: the request "*" gives the artifacts (ports, shared patch, routing
\* table, supervision spec, descriptors) that the comma-separated list of
\* every registered type name, in registry iteration order, gives.
C8_WildcardIsFullList ==
    (synapse_workers.present /\ synapse_workers.value = << "*" >>) =>
        LET full == GenerateWorkerFiles(
                        prev.fs, [ present |-> TRUE, value |-> AllKeysJoined ],
                        config)
        IN  /\ (pc \in { "write_nginx", "write_supervisord" } \/ Generated)
               => locals = full.locals
            /\ Generated => fs = full.fs

C8_Witness ==
    /\ pc = "done"
    /\ synapse_workers.present
    /\ synapse_workers.value = << "*" >>
    /\ Len(locals.converted) = Len(WORKERS_KEYS)

\* C9 as stated: every output file (shared patch, routing table, supervision
\* spec, descriptors) keeps the content it had before the run as a prefix of
\* its content after the run.
C9_AsStated ==
    Generated => \A p \in OutputPaths : IsPrefix(prev.fs[p].content, fs[p].content)

\* C9 amended: the shared patch, the routing table and the supervision spec
\* are written without truncation: the content each had before the run is a
\* prefix of its content during and after the run.  A per-worker descriptor
\* is opened for writing: after the run it holds exactly the text rendered
\* in the run's last convert() call for its path, whatever it held before,
\* and the descriptors the run makes no call for are left as they were.
C9_ConfigsAppendedDescriptorsReplaced ==
    /\ \A p \in { SharedYamlPath, NginxConfPath, SupervisordConfPath } :
         IsPrefix(prev.fs[p].content, fs[p].content)
    /\ Generated =>
        \A p \in DescriptorPaths :
          LET calls == SelectSeq(locals.converted, LAMBDA c : c.dst = p)
          IN  IF calls = << >> THEN fs[p] = prev.fs[p]
              ELSE /\ fs[p].exists
                   /\ fs[p].content
                        = << [ kind |-> "rendered", template |-> WorkerTemplatePath,
                               environ |-> calls[Len(calls)].environ ] >>

C9_Witness ==
    /\ pc = "done"
    /\ prev.fs[DescriptorPath("pusher")].content = << Preexisting >>
    /\ prev.fs[NginxConfPath].content = << Preexisting >>
    /\ \E c \in 1..Len(locals.converted) :
         locals.converted[c].dst = DescriptorPath("pusher")
    /\ ~IsPrefix(<< Preexisting >>, fs[DescriptorPath("pusher")].content)
    /\ IsPrefix(<< Preexisting >>, fs[NginxConfPath].content)

C11_EmptyRequestMinimal ==
    (Generated /\ (~synapse_workers.present \/ synapse_workers.value = << >>))
    => /\ locals.logged = << >>
       /\ Len(Programs(Appended(SupervisordConfPath))) = 2
       /\ Programs(Appended(SupervisordConfPath))[1].name = "nginx"
       /\ Programs(Appended(SupervisordConfPath))[2].name = "synapse_main"
       /\ Len(Appended(NginxConfPath)) = 2
       /\ Appended(NginxConfPath)[1].kind = "header"
       /\ Appended(NginxConfPath)[2].kind = "catchall"
       /\ locals.converted = << >>
       /\ \A p \in DescriptorPaths : fs[p] = prev.fs[p]
       /\ Len(Appended(SharedYamlPath)) = 3
       /\ Appended(SharedYamlPath)[2].kind = "yaml"
       /\ Appended(SharedYamlPath)[3].kind = "redis"

\* C12: the command line of every worker entry names the worker's entry point
\* and then the base config path, the shared patch path and the path the
\* worker's descriptor is written to, in this order; the command line of the
\* main-process entry names the base config path and then the shared patch
\* path.
C12_CommandLayers ==
    Generated =>
        LET text == Appended(SupervisordConfPath)
            workers == WorkerPrograms(text)
            main == SelectSeq(text, LAMBDA e :
                        e.kind = "program" /\ e.name = "synapse_main")
        IN  /\ Len(workers) = Len(locals.converted)
            /\ \A i \in 1..Len(workers) :
                 /\ workers[i].name = "synapse_" \o locals.converted[i].environ.name
                 /\ workers[i].command
                      = << "/usr/local/bin/python", "-m",
                           WORKERS_CONFIG[locals.converted[i].environ.name].app,
                           "--config-path=" \o "/data/homeserver.yaml",
                           "--config-path=" \o "/conf/workers/shared.yaml",
                           "--config-path=" \o locals.converted[i].dst >>
                 /\ fs[locals.converted[i].dst].exists
                 /\ fs[locals.converted[i].dst].content[1].environ.name
                      = locals.converted[i].environ.name
            /\ Len(main) = 1
            /\ main[1].command
                 = << "/usr/local/bin/python", "-m", "synapse.app.homeserver",
                      "--config-path=" \o "/data/homeserver.yaml",
                      "--config-path=" \o "/conf/workers/shared.yaml" >>
            /\ fs["/conf/workers/shared.yaml"].exists
            /\ Appended("/conf/workers/shared.yaml") # << >>

C12_Witness ==
    /\ pc = "done"
    /\ Len(WorkerPrograms(Appended(SupervisordConfPath))) >= 2
    /\ WorkerPrograms(Appended(SupervisordConfPath))[2].command[6]
         = "--config-path=/conf/workers/user_dir.yaml"

\* C13: the shared patch one run generates is the serialized listener list,
\* then the message-bus flag, then the shared_extra_conf fragment of each
\* valid worker in request order, a line each; for the request
\* "federation_reader,user_dir" it holds "update_user_directory: false".
C13_SharedPatchOrder ==
    Generated =>
        LET text == Appended(SharedYamlPath)
            valid == ValidOf(AllTypes)
        IN  /\ Len(text) = 3 + Len(valid)
            /\ text[1] = [ kind |-> "newline" ]
            /\ text[2].kind = "yaml" /\ text[2].key = "listeners"
            /\ text[3] = [ kind |-> "redis", enabled |-> TRUE ]
            /\ \A i \in 1..Len(valid) :
                 text[3 + i]
                   = [ kind |-> "line",
                       text |-> WORKERS_CONFIG[valid[i][1]].shared_extra_conf ]
            /\ SubSeq(text, 2, Len(text)) = locals.homeserver_config
            /\ synapse_workers.value = << "federation_reader", ",", "user_dir" >>
                 => /\ Len(text) = 5
                    /\ text[5].text = "update_user_directory: false"

C13_Witness ==
    /\ pc = "done"
    /\ synapse_workers.value = << "federation_reader", ",", "user_dir" >>
    /\ \E i \in 1..Len(Appended(SharedYamlPath)) :
         /\ Appended(SharedYamlPath)[i].kind = "line"
         /\ Appended(SharedYamlPath)[i].text = "update_user_directory: false"

\* The port the descriptor file of the worker named name carries.
DescriptorPort(name) == fs[DescriptorPath(name)].content[1].environ.port

\* C14: within one run every routing rule emitted for the endpoint patterns
\* of a valid worker instance targets the port the instance's descriptor
\* carries, no two processed instances have the same port, and no worker port
\* is the main listener port, the proxy port or the replication port.
C14_PortConsistent ==
    Generated =>
        /\ \A i \in 1..Len(locals.converted) :
             LET name == locals.converted[i].environ.name
                 before == Len(Flatten([ j \in 1..(i - 1) |->
                              locals.converted[j].environ.endpoint_patterns ]))
             IN  \A k \in 1..Len(WORKERS_CONFIG[name].endpoint_patterns) :
                   /\ Appended(NginxConfPath)[1 + before + k].pattern
                        = WORKERS_CONFIG[name].endpoint_patterns[k]
                   /\ Appended(NginxConfPath)[1 + before + k].proxy_pass
                        = DescriptorPort(name)
        /\ \A i, j \in 1..Len(locals.converted) :
             locals.converted[i].environ.port = locals.converted[j].environ.port
             => i = j
        /\ \A i \in 1..Len(locals.converted) :
             locals.converted[i].environ.port \notin { 8008, 8080, 9093 }

\* C15: in every execution of main() the bootstrap step is entered only
\* while the base config file does not exist and before anything is
\* generated, and the supervisor is started only after the shared patch, the
\* routing table, the supervision spec and the descriptor of every valid
\* worker have been written.
C15_StepOrder ==
    /\ pc = "bootstrap" =>
         (~config.exists /\ fs = prev.fs /\ locals = NoLocals
            /\ ~supervisor_started)
    /\ pc \in { "start", "generate", "loop", "write_nginx", "write_supervisord",
                "start_supervisord" } => ~supervisor_started
    /\ pc \in { "generate", "loop" } =>
         \A p \in { SharedYamlPath, NginxConfPath, SupervisordConfPath } :
            fs[p] = prev.fs[p]
    /\ supervisor_started =>
         /\ pc \in { "done", "failed" }
         /\ idx = Len(worker_types) + 1
         /\ Len(locals.converted) = Len(ValidOf(AllTypes))
         /\ \A p \in { SharedYamlPath, NginxConfPath, SupervisordConfPath } :
              /\ fs[p].exists
              /\ Appended(p) = GeneratedText(p)
              /\ Appended(p) # << >>
         /\ \A c \in 1..Len(locals.converted) :
              /\ fs[locals.converted[c].dst].exists
              /\ fs[locals.converted[c].dst].content # << >>
              /\ fs[locals.converted[c].dst].content[1].kind = "rendered"

C15_Witness ==
    /\ pc = "done"
    /\ supervisor_started
    /\ stdout = << "Generating base homeserver config" >>
    /\ Len(locals.converted) >= 2

====
